---- MODULE Spec2Model ----
(***************************************************************************)
(* Model of the batching Postgres sink of better-logs (package pgcore) and *)
(* of the top-level logger that wraps it (package betterlogs).             *)
(*                                                                         *)
(* Producers call Write, which encodes a record and offers it to the       *)
(* buffered channel c.ch without blocking.  One background goroutine       *)
(* (core.loop) receives from the channel into a batch and flushes the      *)
(* batch inside one transaction; every database call of the flush is one   *)
(* step of the worker, so that a stalled database is a worker that sits at *)
(* one of those steps.  The close function closes c.stop and waits for the *)
(* worker under the caller's context; the top-level cleanup runs it in a   *)
(* goroutine of its own after the logger's Sync.                           *)
(*                                                                         *)
(* Beside the pipeline the module holds, each with a specification of its  *)
(* own over variables the pipeline leaves alone: the two constructors      *)
(* (SpecNew), the extraction of the correlation id from one decoded line   *)
(* (SpecRow), the tee of the console core and the Postgres core (SpecTee), *)
(* the cores derived with With (SpecWith) and the HTTP middleware of       *)
(* package httpmw (SpecMw).  SpecFair is the pipeline under a fair         *)
(* scheduler.                                                              *)
(***************************************************************************)
EXTENDS Integers, Sequences, FiniteSets, TLC

\* ------------------------------------------------------------------ bounds
BufferSize == 2
BatchSize == 2
MaxWrites == 3
MaxShutdownWrites == 1
MaxFairWrites == 2
MaxFlushWrites == 2
MaxStopWrites == 1

\* the callers of the shutdown function: a first and a second invocation
Closers == {1, 2}

\* the zapcore levels Info and Warn, as the integers zap gives them
Levels == 0..1

\* what json.Unmarshal into a map makes of a payload
PayloadKinds == {"object", "invalid"}

\* how the sink was built: straight from pgcore.New, or inside betterlogs.New
Modes == {"pgcore", "toplevel"}
\* the loggers betterlogs.New builds: with the persistent sink, or with the
\* console alone
CleanupModes == {"toplevel", "console"}

VARIABLES
    level,      \* c.level, the threshold fixed at construction
    mode,       \* which constructor built the sink
    queue,      \* c.ch, the buffered channel
    stopClosed, \* c.stop has been closed
    panicked,   \* the process died of a runtime panic
    batch,      \* the worker's batch
    wpc,        \* the worker's position in loop / flush
    wi,         \* index of the next line of the batch in flush's range loop
    wafter,     \* what flush returns to: the loop, or the return after stop
    txOpen,     \* a transaction is open
    txFailed,   \* the COPY of the open transaction has failed
    txRows,     \* rows accepted by stmt.Exec in the open transaction
    persisted,  \* rows of committed transactions
    wret,       \* how the latest call of the logger ended
    cpc,        \* each closer's position in closeFn
    cret,       \* what closeFn returned
    cdone,      \* closeFn's done channel has been closed
    ctxDone,    \* the caller's context is done
    upc,        \* each caller's position in cleanup
    uret,       \* what cleanup returned
    firstErr,   \* cleanup's firstErr
    \* ---- history, not program state
    enqLog,     \* payloads the channel accepted, in arrival order
    dropped,    \* ids of payloads dropped because the channel was full
    submitted,  \* ids handed to stmt.Exec, in order
    txErr,      \* some database call has failed
    stopCount,  \* times close(c.stop) succeeded
    enqAtClose, \* length of enqLog when each closer called closeFn
    \* ---- construction (betterlogs.New, pgcore.New)
    ncfg,       \* the configuration handed to the constructor
    nres,       \* what the constructor returned and started
    \* ---- one line of a flushed batch (the body of flush's range loop)
    rpayload,   \* the fields json.Unmarshal finds in the line
    rkeys,      \* Config.RequestIDKeys as configured
    rrows,      \* the rows handed to stmt.Exec
    \* ---- the tee of the console core and the Postgres core
    tmembers,   \* the cores of the tee, in order
    clevel,     \* the console core's threshold
    tgot,       \* per core, the records its Write took
    tlog,       \* the records logged through the tee
    \* ---- cores derived with With
    hcores,     \* the parent core and its clones
    hqueue,     \* the channels that exist, with their contents
    hworkers,   \* the channel and stop signal of every running loop
    hclosed,    \* the stop channels that have been closed
    \* ---- the HTTP middleware, one request at a time
    mpc,        \* idle, or the wrapped handler is running
    mrw,        \* rw.status
    mresp,      \* the status the response went out with, 0 before the header
    mlog,       \* the records the middleware logged
    \* ---- context fields (WithFields, FieldsFrom)
    fctx,       \* per context, the map of the holder it carries, 0 for none
    fheap,      \* the maps that exist: holders' maps and callers' maps
    fheld,      \* the maps a caller holds and may write into
    fcall,      \* the latest call of WithFields
    fret,       \* the latest return of FieldsFrom
    \* ---- history, not program state
    fexp,       \* per holder's map, the fields attached so far
    \* ---- the worker against a clock; lastGap and timerFlushes are history
    clock,        \* time since the worker started, in seconds
    tickAt,       \* when the ticker sends next
    tickC,        \* ticker.C holds a tick (its buffer is one)
    kbatch,       \* len(batch) of the timed worker
    lastFlush,    \* when the batch was last flushed (the start, before that)
    lastGap,      \* time from the previous flush to the last timer flush
    timerFlushes, \* flushes the ticker case has made of a non-empty batch
    \* ---- goroutines calling WithFields and FieldsFrom on one holder
    gkv,        \* per writer, the keys of the map it passes
    gm,         \* h.m, the holder's map
    gmu,        \* h.mu: the goroutine that holds it, 0 when free
    gpc,        \* per goroutine: before the lock, inside it, returned
    gtodo,      \* per goroutine, the keys its range loop has yet to visit
    gout,       \* per reader, the map out it is filling
    \* ---- history, not program state
    gorder      \* the writers in the order they took the lock

pvars == <<wret, enqLog, dropped>>
wvars == <<batch, wpc, wi, wafter, txOpen, txFailed, txRows, persisted,
           submitted, txErr>>
cvars == <<cpc, cret, cdone, ctxDone, upc, uret, firstErr, stopCount, enqAtClose>>
sinkvars == <<level, mode, queue, stopClosed, panicked, pvars, wvars, cvars>>
nvars == <<ncfg, nres>>
rvars == <<rpayload, rkeys, rrows>>
tvars == <<tmembers, clevel, tgot, tlog>>
hvars == <<hcores, hqueue, hworkers, hclosed>>
mvars == <<mpc, mrw, mresp, mlog>>
fvars == <<fctx, fheap, fheld, fcall, fret, fexp>>
kvars == <<clock, tickAt, tickC, kbatch, lastFlush, lastGap, timerFlushes>>
gvars == <<gkv, gm, gmu, gpc, gtodo, gout, gorder>>
xvars == <<nvars, rvars, tvars, hvars, mvars>>
vars == <<sinkvars, xvars, fvars, kvars, gvars>>

\* ----------------------------------------------------------------- helpers
Ids(s) == {s[i].id : i \in 1..Len(s)}
Range(s) == {s[i] : i \in 1..Len(s)}

\* ------------------------------------------------------------ level filter
\* zapcore.Level.Enabled, reached through c.level.Enabled(lvl)
Enabled(lvl) == lvl >= level

\* core.Check: the core is added to the checked entry iff Enabled
Check_Always(lvl) == TRUE
Check(lvl) == Enabled(lvl)

\* ------------------------------------------------------------------- Write
\* sends the code does not do: a blocking send, drop-oldest, an unbounded channel
ChanOffer_Block(q, b) ==
    IF Len(q) < BufferSize THEN {[q |-> Append(q, b), sent |-> TRUE]} ELSE {}
ChanOffer_DropOldest(q, b) ==
    IF Len(q) < BufferSize THEN {[q |-> Append(q, b), sent |-> TRUE]}
    ELSE {[q |-> Append(Tail(q), b), sent |-> TRUE]}
ChanOffer_NoBound(q, b) == {[q |-> Append(q, b), sent |-> TRUE]}
\* select { case c.ch <- b: default: }: the outcomes the select can have
ChanOffer(q, b) ==
    IF Len(q) < BufferSize THEN {[q |-> Append(q, b), sent |-> TRUE]}
    ELSE {[q |-> q, sent |-> FALSE]}

\* payloads are numbered in the order in which Write offers them to c.ch
Offered == Len(enqLog) + Cardinality(dropped)

\* buf, err := c.enc.EncodeEntry(ent, fields); if err != nil { return err }
EncodeFailed_Ignored(encOK) == FALSE
EncodeFailed(encOK) == ~encOK

\* One call of the logger at level lvl.  The logger asks Check and calls
\* Write only when the core was added; Write encodes the entry (an encoding
\* error is returned to the caller and nothing is offered), offers the bytes
\* to c.ch and returns nil.  The channel select is Write's only access to
\* shared state and the channel makes it atomic, so concurrent producers are
\* the interleavings of these steps.
CoreWrite(lvl, kind, encOK) ==
    /\ ~panicked
    /\ IF ~Check(lvl)
       THEN /\ wret' = "filtered"
            /\ UNCHANGED <<queue, enqLog, dropped>>
       ELSE IF EncodeFailed(encOK)
            THEN /\ wret' = "encerr"
                 /\ UNCHANGED <<queue, enqLog, dropped>>
            ELSE LET b == [id |-> Offered + 1, kind |-> kind, lvl |-> lvl] IN
                 \E o \in ChanOffer(queue, b) :
                   /\ queue' = o.q
                   /\ IF o.sent
                      THEN enqLog' = Append(enqLog, b) /\ UNCHANGED dropped
                      ELSE dropped' = dropped \cup {b.id} /\ UNCHANGED enqLog
                   /\ wret' = "nil"

\* a call of Write changes nothing but the channel and the counters of the core
WriteOf(lvl, kind, encOK) ==
    /\ CoreWrite(lvl, kind, encOK)
    /\ UNCHANGED <<xvars, fvars, kvars, gvars, level, mode, stopClosed, panicked, wvars, cvars>>

Write ==
    \E lvl \in Levels, kind \in PayloadKinds, encOK \in BOOLEAN :
        WriteOf(lvl, kind, encOK)

\* ------------------------------------------------------------------ worker
\* where the worker goes when flush returns (a loop without the return after
\* the final flush would go on selecting)
AfterFlush_Loop(after) == "select"
AfterFlush(after) == IF after = "exit" THEN "done" ELSE "select"

\* flush returns: its caller's position, and the locals of the call are dead
LeaveFlush_Retry == UNCHANGED <<wpc, wafter>>
LeaveFlush == wpc' = AfterFlush(wafter) /\ wafter' = "loop"

\* a flush that would only take a full batch
EnterFlush_FullOnly(b, after) ==
    IF Len(b) < BatchSize
    THEN wpc' = AfterFlush(after) /\ UNCHANGED wafter
    ELSE wpc' = "begin" /\ wafter' = after
\* a flush without the test for an empty batch
EnterFlush_NoEmptyCheck(b, after) == wpc' = "begin" /\ wafter' = after
\* flush() is entered with the batch b: it returns at once on an empty batch
\* and otherwise goes on to db.Begin()
EnterFlush(b, after) ==
    IF Len(b) = 0
    THEN wpc' = AfterFlush(after) /\ UNCHANGED wafter
    ELSE wpc' = "begin" /\ wafter' = after

\* case <-c.stop: flush(); return
WorkerStop ==
    /\ ~panicked
    /\ wpc = "select"
    /\ stopClosed
    /\ EnterFlush(batch, "exit")
    /\ UNCHANGED <<xvars, fvars, kvars, gvars, level, mode, queue, stopClosed, panicked, pvars, cvars,
                   batch, wi, txOpen, txFailed, txRows, persisted, submitted,
                   txErr>>

\* the batch after a receive
BatchAdd_Front(b, x) == <<x>> \o b
\* a receive that would lose what it took
BatchAdd_Drop(b, x) == b
BatchAdd(b, x) == Append(b, x)

\* if len(batch) >= c.batchSize (a test with > would let the batch overshoot)
BatchFull_Over(b) == Len(b) > BatchSize
BatchFull(b) == Len(b) >= BatchSize

\* case b := <-c.ch: append, and flush when the batch is full
WorkerRecv ==
    /\ ~panicked
    /\ wpc = "select"
    /\ Len(queue) > 0
    /\ queue' = Tail(queue)
    /\ batch' = BatchAdd(batch, Head(queue))
    /\ IF BatchFull(batch')
       THEN EnterFlush(batch', "loop")
       ELSE UNCHANGED <<wpc, wafter>>
    /\ UNCHANGED <<xvars, fvars, kvars, gvars, level, mode, stopClosed, panicked, pvars, cvars, wi, txOpen,
                   txFailed, txRows, persisted, submitted, txErr>>

\* case <-ticker.C: flush()
WorkerTick ==
    /\ ~panicked
    /\ wpc = "select"
    /\ EnterFlush(batch, "loop")
    /\ UNCHANGED <<xvars, fvars, kvars, gvars, level, mode, queue, stopClosed, panicked, pvars, cvars,
                   batch, wi, txOpen, txFailed, txRows, persisted, submitted,
                   txErr>>

\* the batch after a flush that could not begin or prepare its transaction
\* (batch = batch[:0]; a flush that kept it would retry the batch)
BatchAfterAbort_Keep(b) == b
BatchAfterAbort(b) == <<>>

\* tx, err := c.db.Begin()
DbBegin ==
    /\ ~panicked
    /\ wpc = "begin"
    /\ \E ok \in BOOLEAN :
         IF ok
         THEN /\ txOpen' = TRUE
              /\ wpc' = "prepare"
              /\ UNCHANGED <<batch, wafter, txErr>>
         ELSE /\ batch' = BatchAfterAbort(batch)
              /\ LeaveFlush
              /\ txErr' = TRUE
              /\ UNCHANGED txOpen
    /\ UNCHANGED <<xvars, fvars, kvars, gvars, level, mode, queue, stopClosed, panicked, pvars, cvars, wi,
                   txFailed, txRows, persisted, submitted>>

\* _ = tx.Rollback() in the error branch of the prepare: the transaction is no
\* longer open (without the call it would stay open behind the flush)
Rollback_Missing(open) == open
Rollback(open) == FALSE

\* stmt, err := tx.Prepare(pq.CopyIn(...)), with the rollback on error
TxPrepare ==
    /\ ~panicked
    /\ wpc = "prepare"
    /\ \E ok \in BOOLEAN :
         IF ok
         THEN /\ wpc' = "rows"
              /\ UNCHANGED <<batch, wafter, txOpen, txErr>>
         ELSE /\ txOpen' = Rollback(txOpen)
              /\ batch' = BatchAfterAbort(batch)
              /\ LeaveFlush
              /\ txErr' = TRUE
    /\ UNCHANGED <<xvars, fvars, kvars, gvars, level, mode, queue, stopClosed, panicked, pvars, cvars, wi,
                   txFailed, txRows, persisted, submitted>>

\* json.Unmarshal(line, &tmp) == nil
Parseable_All(line) == TRUE
Parseable(line) == line.kind = "object"

\* whether an error of stmt.Exec(reqID, line) ends the range loop: it is only
\* logged (a loop that broke off on it would leave the later lines unsent)
ExecErrorEnds_Loop(ok) == ~ok
ExecErrorEnds(ok) == FALSE

\* one iteration of the range loop over the batch: a line that does not parse
\* is skipped, any other is handed to stmt.Exec, whose error is only logged
RowStep ==
    /\ ~panicked
    /\ wpc = "rows"
    /\ LET line == batch[wi]
           Advance(ends) ==
               IF wi < Len(batch) /\ ~ends
               THEN wi' = wi + 1 /\ UNCHANGED wpc
               ELSE wpc' = "final" /\ wi' = 1
       IN  IF ~Parseable(line)
           THEN UNCHANGED <<submitted, txRows, txErr>> /\ Advance(FALSE)
           ELSE /\ submitted' = Append(submitted, line.id)
                /\ \E ok \in BOOLEAN :
                     /\ IF ok
                        THEN txRows' = Append(txRows, line) /\ UNCHANGED txErr
                        ELSE txErr' = TRUE /\ UNCHANGED txRows
                     /\ Advance(ExecErrorEnds(ok))
    /\ UNCHANGED <<xvars, fvars, kvars, gvars, level, mode, queue, stopClosed, panicked, pvars, cvars,
                   batch, wafter, txOpen, txFailed, persisted>>

\* stmt.Exec() and stmt.Close(): the end of the COPY; errors are only logged
FinalExec ==
    /\ ~panicked
    /\ wpc = "final"
    /\ \E ok \in BOOLEAN :
         IF ok THEN UNCHANGED <<txFailed, txErr>>
         ELSE txFailed' = TRUE /\ txErr' = TRUE
    /\ wpc' = "commit"
    /\ UNCHANGED <<xvars, fvars, kvars, gvars, level, mode, queue, stopClosed, panicked, pvars, cvars,
                   batch, wi, wafter, txOpen, txRows, persisted, submitted>>

\* batch = batch[:0] at the end of flush
BatchAfterFlush_Keep(b) == b
BatchAfterFlush(b) == <<>>

\* what tx.Commit() makes of the rows: they reach the table when the commit
\* succeeds on a transaction whose COPY ended well (a commit that went through
\* on a failed COPY would store them anyway)
Committed_Anyway(ok, failed) == ok
Committed(ok, failed) == ok /\ ~failed

\* tx.Commit(), then batch = batch[:0]
TxCommit ==
    /\ ~panicked
    /\ wpc = "commit"
    /\ \E ok \in BOOLEAN :
         IF Committed(ok, txFailed)
         THEN persisted' = persisted \o txRows /\ UNCHANGED txErr
         ELSE txErr' = TRUE /\ UNCHANGED persisted
    /\ txOpen' = FALSE
    /\ txFailed' = FALSE
    /\ txRows' = <<>>
    /\ batch' = BatchAfterFlush(batch)
    /\ LeaveFlush
    /\ UNCHANGED <<xvars, fvars, kvars, gvars, level, mode, queue, stopClosed, panicked, pvars, cvars, wi,
                   submitted>>

\* ---------------------------------------------------------------- shutdown
\* if pgClose != nil: the top-level logger has a closeFn to call when it was
\* built with the persistent sink (a cleanup that did not test it would stop
\* a sink that is not there)
HasPgClose_Always(m) == TRUE
HasPgClose(m) == m = "toplevel"

\* closeFn starts with close(c.stop); closing a closed channel panics.  In
\* the top-level logger closeFn runs in the goroutine cleanup starts after
\* its sync, and that goroutine runs whether cleanup has returned or not.
CloseStop(c) ==
    /\ ~panicked
    /\ cpc[c] = "idle"
    /\ mode = "pgcore" \/ (HasPgClose(mode) /\ upc[c] \in {"wait", "ret"})
    /\ IF stopClosed
       THEN /\ panicked' = TRUE
            /\ cpc' = [cpc EXCEPT ![c] = "panic"]
            /\ UNCHANGED <<stopClosed, stopCount, enqAtClose>>
       ELSE /\ stopClosed' = TRUE
            /\ stopCount' = stopCount + 1
            /\ cpc' = [cpc EXCEPT ![c] = "wait"]
            /\ enqAtClose' = [enqAtClose EXCEPT ![c] = Len(enqLog)]
            /\ UNCHANGED panicked
    /\ UNCHANGED <<xvars, fvars, kvars, gvars, level, mode, queue, pvars, wvars, cret, cdone, ctxDone, upc,
                   uret, firstErr>>

\* go func() { c.wg.Wait(); close(done) }()
WaitDone(c) ==
    /\ ~panicked
    /\ cpc[c] = "wait"
    /\ ~cdone[c]
    /\ wpc = "done"
    /\ cdone' = [cdone EXCEPT ![c] = TRUE]
    /\ UNCHANGED <<xvars, fvars, kvars, gvars, level, mode, queue, stopClosed, panicked, pvars, wvars, cpc,
                   cret, ctxDone, upc, uret, firstErr, stopCount, enqAtClose>>

\* the deadline of the context the caller passed elapses during the call
CtxExpire(c) ==
    /\ ~panicked
    /\ ~ctxDone[c]
    /\ cpc[c] = "wait" \/ upc[c] = "wait"
    /\ ctxDone' = [ctxDone EXCEPT ![c] = TRUE]
    /\ UNCHANGED <<xvars, fvars, kvars, gvars, level, mode, queue, stopClosed, panicked, pvars, wvars, cpc,
                   cret, cdone, upc, uret, firstErr, stopCount, enqAtClose>>

\* closeFn's select { case <-ctx.Done(): return ctx.Err(); case <-done: return nil }
CloseSelect_Ready(c, e) ==
    \/ ctxDone[c] /\ e = "deadline"
    \/ cdone[c] /\ e = "nil"

CloseSelect(c) ==
    /\ ~panicked
    /\ cpc[c] = "wait"
    /\ \E e \in {"deadline", "nil"} :
         /\ CloseSelect_Ready(c, e)
         /\ cret' = [cret EXCEPT ![c] = e]
    /\ cpc' = [cpc EXCEPT ![c] = "ret"]
    /\ UNCHANGED <<xvars, fvars, kvars, gvars, level, mode, queue, stopClosed, panicked, pvars, wvars,
                   cdone, ctxDone, upc, uret, firstErr, stopCount, enqAtClose>>

\* cleanup: logger.Sync() first, its error kept in firstErr, then the
\* goroutine that runs pgClose(ctx) and closes done
CleanupSync(c) ==
    /\ ~panicked
    /\ mode \in CleanupModes
    /\ upc[c] = "idle"
    /\ \E ok \in BOOLEAN :
         firstErr' = [firstErr EXCEPT ![c] = IF ok THEN "nil" ELSE "syncerr"]
    /\ IF HasPgClose(mode)
       THEN /\ upc' = [upc EXCEPT ![c] = "wait"]
            /\ UNCHANGED uret
       ELSE /\ upc' = [upc EXCEPT ![c] = "ret"]
            /\ uret' = [uret EXCEPT ![c] = firstErr'[c]]
    /\ UNCHANGED <<xvars, fvars, kvars, gvars, level, mode, queue, stopClosed, panicked, pvars, wvars, cpc,
                   cret, cdone, ctxDone, stopCount, enqAtClose>>

\* cleanup's select { case <-ctx.Done(): ...; case <-done: } and return firstErr;
\* done is closed as soon as pgClose has returned, whatever it returned
CleanupSelect(c) ==
    /\ ~panicked
    /\ upc[c] = "wait"
    /\ \/ /\ ctxDone[c]
          /\ uret' = [uret EXCEPT ![c] =
                IF firstErr[c] = "nil" THEN "deadline" ELSE firstErr[c]]
       \/ /\ cpc[c] = "ret"
          /\ uret' = [uret EXCEPT ![c] = firstErr[c]]
    /\ upc' = [upc EXCEPT ![c] = "ret"]
    /\ UNCHANGED <<xvars, fvars, kvars, gvars, level, mode, queue, stopClosed, panicked, pvars, wvars, cpc,
                   cret, cdone, ctxDone, firstErr, stopCount, enqAtClose>>

\* ------------------------------------------------------------ construction
\* the values an integer setting of a configuration is drawn from
CfgSizes == {-1, 0, 2}

\* the defaults of pgcore.New: lines, seconds, payloads
DefaultBatchSize == 1000
DefaultMaxWait == 2
DefaultBufferSize == 10000

\* how long a configured list of correlation keys gets
MaxKeys == 2

\* the keys a payload or a key list can name
FieldKeys == {"request_id", "req_id"}

\* the key lists a configuration can hold
KeyLists == UNION {[1..n -> FieldKeys] : n \in 0..MaxKeys}

\* the list pgcore.New puts in place of an empty one
DefaultKeys ==
    <<"request_id", "req_id", "correlation_id", "X-Request-ID",
      "X-Correlation-ID", "requestid">>

\* if len(cfg.RequestIDKeys) == 0 { cfg.RequestIDKeys = ... }
ReqKeys(keys) == IF Len(keys) = 0 THEN DefaultKeys ELSE keys

\* *sql.DB: a nil pointer or an open handle
Handles == {"nil", "open"}

\* betterlogs.Config, and the arguments of pgcore.New in the fields db and pg
Configs ==
    [stdout : BOOLEAN, pg : BOOLEAN, db : Handles,
     batchSize : CfgSizes, maxWait : CfgSizes, bufferSize : CfgSizes,
     keys : KeyLists]

\* no constructor has returned yet
NoResult ==
    [ctor |-> "none", err |-> "nil", logger |-> FALSE, cleanup |-> FALSE,
     workers |-> 0, cores |-> <<>>, batchSize |-> 0, maxWait |-> 0,
     bufferSize |-> 0, keys |-> <<>>]

\* if cfg.X <= 0 { cfg.X = default } (a test with < would let a zero through)
OrDefault_ZeroKept(x, d) == IF x < 0 THEN d ELSE x
OrDefault(x, d) == IF x <= 0 THEN d ELSE x

\* pgcore.New(db, cfg): normalises the sizes, builds the core, starts the
\* worker goroutine and returns the core, closeFn and a nil error; db is
\* stored in the core and not looked at
PgNew(db, cfg) ==
    [ctor |-> "pgcore", err |-> "nil", logger |-> TRUE, cleanup |-> TRUE,
     workers |-> 1, cores |-> <<"pg">>,
     batchSize |-> OrDefault(cfg.batchSize, DefaultBatchSize),
     maxWait |-> OrDefault(cfg.maxWait, DefaultMaxWait),
     bufferSize |-> OrDefault(cfg.bufferSize, DefaultBufferSize),
     keys |-> ReqKeys(cfg.keys)]

\* return nil, nil, errors.New(...)
NewError(e, started) ==
    [ctor |-> "betterlogs", err |-> e, logger |-> FALSE, cleanup |-> FALSE,
     workers |-> started, cores |-> <<>>, batchSize |-> 0, maxWait |-> 0,
     bufferSize |-> 0, keys |-> <<>>]

\* if cfg.DB == nil
DbMissing_Never(db) == FALSE
DbMissing(db) == db = "nil"

\* if len(cores) == 0
NoCore_Never(cores) == FALSE
NoCore(cores) == Len(cores) = 0

\* betterlogs.New(cfg): the console core if Stdout, the Postgres core if
\* EnablePostgres (an error when DB is nil), an error when no core was made,
\* and otherwise the logger over the tee of the cores with its cleanup; the
\* pgcore.Config it builds has the level and the three sizes and no key list
BetterNew(cfg) ==
    LET console == IF cfg.stdout THEN <<"console">> ELSE <<>>
        p == PgNew(cfg.db, [cfg EXCEPT !.keys = <<>>])
        cores == IF cfg.pg THEN console \o p.cores ELSE console
        started == IF cfg.pg THEN p.workers ELSE 0
    IN  IF cfg.pg /\ DbMissing(cfg.db) THEN NewError("nildb", 0)
        ELSE IF cfg.pg /\ p.err # "nil" THEN NewError("pgcore", p.workers)
        ELSE IF NoCore(cores) THEN NewError("nocore", started)
        ELSE [ctor |-> "betterlogs", err |-> "nil", logger |-> TRUE,
              cleanup |-> TRUE, workers |-> started, cores |-> cores,
              batchSize |-> IF cfg.pg THEN p.batchSize ELSE 0,
              maxWait |-> IF cfg.pg THEN p.maxWait ELSE 0,
              bufferSize |-> IF cfg.pg THEN p.bufferSize ELSE 0,
              keys |-> IF cfg.pg THEN p.keys ELSE <<>>]

\* the application calls betterlogs.New with its configuration
CallBetterNew ==
    /\ nres = NoResult
    /\ nres' = BetterNew(ncfg)
    /\ UNCHANGED <<sinkvars, fvars, kvars, gvars, ncfg, rvars, tvars, hvars, mvars>>

\* the application builds the Postgres core itself
CallPgNew ==
    /\ nres = NoResult
    /\ nres' = PgNew(ncfg.db, ncfg)
    /\ UNCHANGED <<sinkvars, fvars, kvars, gvars, ncfg, rvars, tvars, hvars, mvars>>

\* no constructor is under observation
NewIdle ==
    /\ ncfg = [stdout |-> FALSE, pg |-> TRUE, db |-> "open", batchSize |-> BatchSize,
               maxWait |-> 0, bufferSize |-> BufferSize, keys |-> <<>>]
    /\ nres = NoResult

\* ------------------------------------------------------- correlation id
\* what a key of the decoded map holds: nothing, a string, or another JSON value
FieldValues ==
    {[t |-> "absent", v |-> ""], [t |-> "string", v |-> ""],
     [t |-> "string", v |-> "a"], [t |-> "string", v |-> "b"],
     [t |-> "number", v |-> "7"]}

\* v, ok := tmp[k]
Lookup(m, k) == IF k \in DOMAIN m THEN m[k] ELSE [t |-> "absent", v |-> ""]

\* if s, ok := v.(string); ok && s != ""
Qualifies(m, k) == Lookup(m, k).t = "string" /\ Lookup(m, k).v # ""

\* a scan without the break: the last qualifying key wins
RECURSIVE ScanKeys_Last(_, _, _)
ScanKeys_Last(m, keys, i) ==
    IF i > Len(keys) THEN ""
    ELSE LET rest == ScanKeys_Last(m, keys, i + 1) IN
         IF rest # "" THEN rest
         ELSE IF Qualifies(m, keys[i]) THEN Lookup(m, keys[i]).v ELSE ""
\* for _, k := range c.reqKeys { ...; reqID = s; break }, from position i on
RECURSIVE ScanKeys(_, _, _)
ScanKeys(m, keys, i) ==
    IF i > Len(keys) THEN ""
    ELSE IF Qualifies(m, keys[i]) THEN Lookup(m, keys[i]).v
    ELSE ScanKeys(m, keys, i + 1)

\* reqID as flush computes it for one decoded line
ReqIDOf(m, keys) == ScanKeys(m, keys, 1)

\* the body of the range loop for a line that json.Unmarshal accepts:
\* stmt.Exec(reqID, string(line))
ExecRow ==
    /\ rrows = <<>>
    /\ rrows' = Append(rrows, [req_id |-> ReqIDOf(rpayload, ReqKeys(rkeys)),
                               raw |-> rpayload])
    /\ UNCHANGED <<sinkvars, fvars, kvars, gvars, nvars, rpayload, rkeys, tvars, hvars, mvars>>

\* no line is under observation
RowIdle ==
    /\ rpayload = [k \in FieldKeys |-> [t |-> "absent", v |-> ""]]
    /\ rkeys = <<>>
    /\ rrows = <<>>

\* ------------------------------------------------------------ the tee
MaxTeeWrites == 2

\* the cores betterlogs.New can put under the tee
MemberNames == {"console", "pg"}

\* zapcore.NewTee(cores...): the console core and the Postgres core, in the
\* order of betterlogs.New or the other way round
TeeOrders == {<<"console", "pg">>, <<"pg", "console">>}

\* a member's Check: core.Check for the Postgres core, the level test of
\* zapcore.NewCore for the console core
MemberCheck(name, lvl) == IF name = "pg" THEN Check(lvl) ELSE lvl >= clevel

\* the tee's Enabled: some member is enabled
TeeEnabled(members, lvl) ==
    \E i \in 1..Len(members) : MemberCheck(members[i], lvl)

\* the tee's Check: every member's Check in turn, each adding its own core
TeeCheck(members, lvl) == SelectSeq(members, LAMBDA n : MemberCheck(n, lvl))

\* a write loop that returns at the first core that fails
Delivered_StopAtError(cores, failing) ==
    {cores[i] : i \in {k \in 1..Len(cores) :
                          \A j \in 1..k : cores[j] \notin failing}}
\* the checked entry's Write: the Write of every added core is called, the
\* errors are collected; the cores whose Write took the record
Delivered(cores, failing) == {cores[i] : i \in 1..Len(cores)} \ failing

\* one call of the logger over the tee at level lvl; the Write of the cores
\* in failing returns an error
TeeLog(lvl, failing) ==
    /\ Len(tlog) < MaxTeeWrites
    /\ LET id == Len(tlog) + 1
           cores == TeeCheck(tmembers, lvl)
           took == Delivered(cores, failing)
       IN  /\ tgot' = [n \in MemberNames |->
                          IF n \in took THEN Append(tgot[n], id) ELSE tgot[n]]
           /\ tlog' = Append(tlog, [id |-> id, lvl |-> lvl, failed |-> failing,
                                    accepted |-> TeeEnabled(tmembers, lvl)])
    /\ UNCHANGED <<sinkvars, fvars, kvars, gvars, nvars, rvars, tmembers, clevel, hvars, mvars>>

TeeWrite == \E lvl \in Levels, failing \in SUBSET MemberNames : TeeLog(lvl, failing)

\* no tee is under observation
TeeIdle ==
    /\ tmembers = <<>>
    /\ clevel = 0
    /\ tgot = [n \in MemberNames |-> <<>>]
    /\ tlog = <<>>

\* ---------------------------------------------------------- derived cores
MaxWith == 2
MaxWithWrites == 2

\* the channels a core can refer to: the one pgcore.New made, and one more
\* for every core that could make its own
ChanIds == 1..(MaxWith + 1)

\* a With that would give the clone a channel and a stop signal of its own
CloneCore_Own(c, n) == [ch |-> n + 1, stop |-> n + 1, fields |-> c.fields + 1]
\* clone := &core{enc: c.enc.Clone(), ..., ch: c.ch, stop: c.stop, ...} with
\* the fields added to the clone's encoder; n cores exist already
CloneCore(c, n) == [ch |-> c.ch, stop |-> c.stop, fields |-> c.fields + 1]

\* core.With on the core k: the clone is returned, nothing is started
With(k) ==
    /\ Len(hcores) <= MaxWith
    /\ hcores' = Append(hcores, CloneCore(hcores[k], Len(hcores)))
    /\ UNCHANGED <<sinkvars, fvars, kvars, gvars, nvars, rvars, tvars, hqueue, hworkers, hclosed, mvars>>

\* payloads written so far and not dropped
WithWritten ==
    LET RECURSIVE Sum(_)
        Sum(S) == IF S = {} THEN 0
                  ELSE LET c == CHOOSE x \in S : TRUE
                       IN  Len(hqueue[c]) + Sum(S \ {c})
    IN  Sum(ChanIds) + Len(hworkers[1].got)

\* core.Write on the core k: the encoded entry, with the static fields of
\* that core, is offered to the channel the core holds
WithWrite(k) ==
    /\ WithWritten < MaxWithWrites
    /\ LET c == hcores[k]
           b == [core |-> k, fields |-> c.fields]
       IN  \E o \in ChanOffer(hqueue[c.ch], b) :
               hqueue' = [hqueue EXCEPT ![c.ch] = o.q]
    /\ UNCHANGED <<sinkvars, fvars, kvars, gvars, nvars, rvars, tvars, hcores, hworkers, hclosed, mvars>>

\* case b := <-c.ch, in the loop w
WithRecv(w) ==
    /\ hworkers[w].pc = "run"
    /\ Len(hqueue[hworkers[w].ch]) > 0
    /\ hworkers' = [hworkers EXCEPT
                      ![w].got = Append(@, Head(hqueue[hworkers[w].ch]))]
    /\ hqueue' = [hqueue EXCEPT ![hworkers[w].ch] = Tail(@)]
    /\ UNCHANGED <<sinkvars, fvars, kvars, gvars, nvars, rvars, tvars, hcores, hclosed, mvars>>

\* closeFn of pgcore.New: close(c.stop) of the parent core
WithClose ==
    /\ hcores[1].stop \notin hclosed
    /\ hclosed' = hclosed \cup {hcores[1].stop}
    /\ UNCHANGED <<sinkvars, fvars, kvars, gvars, nvars, rvars, tvars, hcores, hqueue, hworkers, mvars>>

\* case <-c.stop, in the loop w: the loop returns
WithStop(w) ==
    /\ hworkers[w].pc = "run"
    /\ hworkers[w].stop \in hclosed
    /\ hworkers' = [hworkers EXCEPT ![w].pc = "done"]
    /\ UNCHANGED <<sinkvars, fvars, kvars, gvars, nvars, rvars, tvars, hcores, hqueue, hclosed, mvars>>

\* pgcore.New has returned: one core, its channel and stop signal, one loop
WithStart ==
    /\ hcores = <<[ch |-> 1, stop |-> 1, fields |-> 0]>>
    /\ hqueue = [c \in ChanIds |-> <<>>]
    /\ hworkers = <<[ch |-> 1, stop |-> 1, pc |-> "run", got |-> <<>>]>>
    /\ hclosed = {}

\* no derived core is under observation
WithIdle == WithStart
\* -------------------------------------------------------- HTTP middleware
MaxRequests == 2
MaxHandlerCalls == 2

\* status codes on both sides of the two thresholds
Statuses == {200, 399, 400, 499, 500}

\* the switch on status: Error from 500, Warn from 400, Info otherwise
Severity(status) ==
    IF status >= 500 THEN "error"
    ELSE IF status >= 400 THEN "warn"
    ELSE "info"

\* the status a response has once its header is out: net/http takes the first
\* WriteHeader of a response and ignores the later ones, and a Write or the
\* handler's return before any WriteHeader sends 200
HeaderOut(resp, code) == IF resp = 0 THEN code ELSE resp

\* the middleware is entered: rw := &responseWriter{status: http.StatusOK},
\* then next.ServeHTTP(rw, r)
MwServe ==
    /\ mpc.at = "idle"
    /\ Len(mlog) < MaxRequests
    /\ mpc' = [at |-> "handler", calls |-> 0]
    /\ mrw' = 200
    /\ mresp' = 0
    /\ UNCHANGED <<sinkvars, fvars, kvars, gvars, nvars, rvars, tvars, hvars, mlog>>

\* the handler calls rw.WriteHeader(code): rw.status = code, and the call is
\* passed on to the wrapped writer
HandlerWriteHeader(code) ==
    /\ mpc.at = "handler"
    /\ mpc.calls < MaxHandlerCalls
    /\ mpc' = [mpc EXCEPT !.calls = @ + 1]
    /\ mrw' = code
    /\ mresp' = HeaderOut(mresp, code)
    /\ UNCHANGED <<sinkvars, fvars, kvars, gvars, nvars, rvars, tvars, hvars, mlog>>

\* the handler calls rw.Write: the bytes go to the wrapped writer, rw.status
\* is left alone
HandlerWrite ==
    /\ mpc.at = "handler"
    /\ mpc.calls < MaxHandlerCalls
    /\ mpc' = [mpc EXCEPT !.calls = @ + 1]
    /\ mresp' = HeaderOut(mresp, 200)
    /\ UNCHANGED <<sinkvars, fvars, kvars, gvars, nvars, rvars, tvars, hvars, mrw, mlog>>

\* the handler returns: the middleware reads rw.status and logs one record
\* at the level the switch gives
HandlerReturn ==
    /\ mpc.at = "handler"
    /\ mpc' = [at |-> "idle", calls |-> 0]
    /\ mresp' = HeaderOut(mresp, 200)
    /\ mlog' = Append(mlog, [sev |-> Severity(mrw), status |-> mrw,
                             resp |-> mresp'])
    /\ UNCHANGED <<sinkvars, fvars, kvars, gvars, nvars, rvars, tvars, hvars, mrw>>

\* the handler panics: the middleware has no recover, nothing is logged
HandlerPanic ==
    /\ mpc.at = "handler"
    /\ mpc' = [at |-> "idle", calls |-> 0]
    /\ UNCHANGED <<sinkvars, fvars, kvars, gvars, nvars, rvars, tvars, hvars, mrw, mresp, mlog>>

\* no request has been served
MwIdle ==
    /\ mpc = [at |-> "idle", calls |-> 0]
    /\ mrw = 0
    /\ mresp = 0
    /\ mlog = <<>>

\* ----------------------------------------------------------- context fields
MaxObjs == 3

\* the keys of a field map; a key holds 0 for no entry, 1 for the value the
\* caller put, 2 for a value the caller wrote into a map later
CtxKeys == {"a", "b"}
EmptyMap == [k \in CtxKeys |-> 0]

\* the maps a caller passes to WithFields
CallerMaps == [CtxKeys -> 0..1]

\* a WithFields that would leave the holder as it was
Merge_Nothing(m, kv) == m
\* for k, v := range kv { h.m[k] = v }
Merge(m, kv) == [k \in CtxKeys |-> IF kv[k] # 0 THEN kv[k] ELSE m[k]]

\* getHolder(ctx): the map of the holder the context carries, 0 for none
HolderOf(c) == fctx[c]

\* a FieldsFrom that would hand out the holder's own map
SnapshotRef_Alias(heap, h) == h
\* out := make(map[string]any, len(h.m)): the returned map is a new object
SnapshotRef(heap, h) == Len(heap) + 1

\* the caller builds a map
NewMap(m) ==
    /\ Len(fheap) < MaxObjs
    /\ fheap' = Append(fheap, m)
    /\ fexp' = Append(fexp, EmptyMap)
    /\ fheld' = fheld \cup {Len(fheap) + 1}
    /\ UNCHANGED <<sinkvars, xvars, kvars, gvars, fctx, fcall, fret>>

\* WithFields(ctx, kv) on the context c with the caller's map kv (0 for nil):
\* ensureHolder returns the holder of c, or makes a holder and a context
\* that carries it; the entries of kv are copied into the holder's map
WithFields(c, kv) ==
    LET had == HolderOf(c) # 0
        h == IF had THEN HolderOf(c) ELSE Len(fheap) + 1
        ret == IF had THEN c ELSE Len(fctx) + 1
        arg == IF kv = 0 THEN EmptyMap ELSE fheap[kv]
        heap1 == IF had THEN fheap ELSE Append(fheap, EmptyMap)
        exp1 == IF had THEN fexp ELSE Append(fexp, EmptyMap)
    IN  /\ had \/ Len(fheap) < MaxObjs
        /\ fctx' = IF had THEN fctx ELSE Append(fctx, h)
        /\ fheap' = [heap1 EXCEPT ![h] = Merge(@, arg)]
        /\ fexp' = [exp1 EXCEPT ![h] = Merge(@, arg)]
        /\ fcall' = [ctx |-> c, ret |-> ret, kv |-> arg]
        /\ UNCHANGED <<sinkvars, xvars, kvars, gvars, fheld, fret>>

\* FieldsFrom(ctx) on the context c: an empty map when c carries no holder,
\* a copy of the holder's map otherwise
FieldsFrom(c) ==
    LET h == HolderOf(c)
        r == IF h = 0 THEN Len(fheap) + 1 ELSE SnapshotRef(fheap, h)
        val == IF h = 0 THEN EmptyMap ELSE fheap[h]
    IN  /\ r <= MaxObjs
        /\ fheap' = IF r > Len(fheap) THEN Append(fheap, val) ELSE fheap
        /\ fexp' = IF r > Len(fheap) THEN Append(fexp, EmptyMap) ELSE fexp
        /\ fheld' = fheld \cup {r}
        /\ fret' = [ctx |-> c, val |-> val]
        /\ UNCHANGED <<sinkvars, xvars, kvars, gvars, fctx, fcall>>

\* the caller writes into a map it holds: one it passed, or one it got back
MutateMap(r, k, v) ==
    /\ r \in fheld
    /\ fheap' = [fheap EXCEPT ![r][k] = v]
    /\ UNCHANGED <<sinkvars, xvars, kvars, gvars, fctx, fexp, fcall, fheld, fret>>

\* context.Background(): one context, no holder, no map
CtxStart ==
    /\ fctx = <<0>>
    /\ fheap = <<>>
    /\ fexp = <<>>
    /\ fcall = [ctx |-> 0, ret |-> 0, kv |-> EmptyMap]
    /\ fheld = {}
    /\ fret = [ctx |-> 0, val |-> EmptyMap]

\* ------------------------------------------- context fields, concurrently
\* Goroutines that share one holder, the one the middleware installed: each
\* writer calls WithFields once, each reader FieldsFrom once, and the calls
\* run statement by statement.  Writer w passes a map with the keys gkv[w],
\* each holding the value w.
MaxWriters == 2
MaxReaders == 1
Writers == 1..MaxWriters
Readers == (MaxWriters + 1)..(MaxWriters + MaxReaders)

\* the map writer w passes
KvOf(w) == [k \in CtxKeys |-> IF k \in gkv[w] THEN w ELSE 0]

\* h.mu.Lock() returns when no goroutine holds the mutex (without the mutex
\* every goroutine would go ahead)
MutexFree_Always(mu) == TRUE
MutexFree(mu) == mu = 0

\* WithFields: if len(kv) == 0 { return ctx2 }
GoEmpty(w) ==
    /\ gpc[w] = "call"
    /\ gkv[w] = {}
    /\ gpc' = [gpc EXCEPT ![w] = "ret"]
    /\ UNCHANGED <<sinkvars, xvars, fvars, kvars, gkv, gm, gmu, gtodo, gout, gorder>>

\* h.mu.Lock() in WithFields
GoLockW(w) ==
    /\ gpc[w] = "call"
    /\ gkv[w] # {}
    /\ MutexFree(gmu)
    /\ gmu' = w
    /\ gpc' = [gpc EXCEPT ![w] = "locked"]
    /\ gtodo' = [gtodo EXCEPT ![w] = gkv[w]]
    /\ gorder' = Append(gorder, w)
    /\ UNCHANGED <<sinkvars, xvars, fvars, kvars, gkv, gm, gout>>

\* one iteration of for k, v := range kv { h.m[k] = v }
GoWriteKey(w, k) ==
    /\ gpc[w] = "locked"
    /\ k \in gtodo[w]
    /\ gm' = [gm EXCEPT ![k] = KvOf(w)[k]]
    /\ gtodo' = [gtodo EXCEPT ![w] = @ \ {k}]
    /\ UNCHANGED <<sinkvars, xvars, fvars, kvars, gkv, gmu, gpc, gout, gorder>>

\* h.mu.Lock() and out := make(...) in FieldsFrom
GoLockR(r) ==
    /\ gpc[r] = "call"
    /\ MutexFree(gmu)
    /\ gmu' = r
    /\ gpc' = [gpc EXCEPT ![r] = "locked"]
    /\ gtodo' = [gtodo EXCEPT ![r] = CtxKeys]
    /\ gout' = [gout EXCEPT ![r] = EmptyMap]
    /\ UNCHANGED <<sinkvars, xvars, fvars, kvars, gkv, gm, gorder>>

\* one iteration of for k, v := range h.m { out[k] = v }
GoCopyKey(r, k) ==
    /\ gpc[r] = "locked"
    /\ k \in gtodo[r]
    /\ gout' = [gout EXCEPT ![r][k] = gm[k]]
    /\ gtodo' = [gtodo EXCEPT ![r] = @ \ {k}]
    /\ UNCHANGED <<sinkvars, xvars, fvars, kvars, gkv, gm, gmu, gpc, gorder>>

\* the deferred h.mu.Unlock() and the return
GoUnlock(p) ==
    /\ gpc[p] = "locked"
    /\ gtodo[p] = {}
    /\ gmu' = 0
    /\ gpc' = [gpc EXCEPT ![p] = "ret"]
    /\ UNCHANGED <<sinkvars, xvars, fvars, kvars, gkv, gm, gtodo, gout, gorder>>

\* no call has begun, the holder's map is empty
GoStart ==
    /\ gm = EmptyMap
    /\ gmu = 0
    /\ gpc = [p \in Writers \cup Readers |-> "call"]
    /\ gtodo = [p \in Writers \cup Readers |-> {}]
    /\ gout = [r \in Readers |-> EmptyMap]
    /\ gorder = <<>>

\* no goroutine is under observation
GoIdle == GoStart /\ gkv = [w \in Writers |-> {}]

\* ------------------------------------------------------------- the ticker
\* The worker loop against a clock, for a sink with the default MaxWait: the
\* ticker made by time.NewTicker(c.maxWait) when the loop starts, the receive
\* with its size-triggered flush, and the ticker case.  A flush takes no time
\* of its own here; a slow worker is one that lets the clock run.
MaxClock == 5

\* whether the ticker sends at the time now (a ticker that sent at every
\* instant would not keep its period)
TickDue_Every(now, at) == TRUE
TickDue(now, at) == now = at

\* a second passes; at its period the ticker puts a tick into ticker.C, or
\* drops it when the last one was not taken, and nothing restarts the period
Elapse ==
    /\ clock < MaxClock
    /\ clock' = clock + 1
    /\ IF TickDue(clock', tickAt)
       THEN tickC' = TRUE /\ tickAt' = clock' + DefaultMaxWait
       ELSE UNCHANGED <<tickC, tickAt>>
    /\ UNCHANGED <<sinkvars, xvars, fvars, gvars, kbatch, lastFlush, lastGap, timerFlushes>>

\* case b := <-c.ch, with the flush of a full batch
TimedRecv ==
    /\ IF kbatch + 1 >= BatchSize
       THEN kbatch' = 0 /\ lastFlush' = clock
       ELSE kbatch' = kbatch + 1 /\ UNCHANGED lastFlush
    /\ UNCHANGED <<sinkvars, xvars, fvars, gvars, clock, tickAt, tickC, lastGap, timerFlushes>>

\* case <-ticker.C: flush(), which returns at once on an empty batch
TimedTick ==
    /\ tickC
    /\ tickC' = FALSE
    /\ IF kbatch = 0
       THEN UNCHANGED <<kbatch, lastFlush, lastGap, timerFlushes>>
       ELSE /\ kbatch' = 0
            /\ lastGap' = clock - lastFlush
            /\ lastFlush' = clock
            /\ timerFlushes' = timerFlushes + 1
    /\ UNCHANGED <<sinkvars, xvars, fvars, gvars, clock, tickAt>>

\* the loop starts: the ticker is new, the batch empty
TimerStart ==
    /\ clock = 0
    /\ tickAt = DefaultMaxWait
    /\ tickC = FALSE
    /\ kbatch = 0
    /\ lastFlush = 0
    /\ lastGap = -1
    /\ timerFlushes = 0

\* the state New leaves: an empty channel, an open stop channel, the worker
\* started with an empty batch, nobody shutting down
InitSink ==
    /\ level \in Levels
    /\ queue = <<>>
    /\ stopClosed = FALSE
    /\ panicked = FALSE
    /\ batch = <<>>
    /\ wpc = "select"
    /\ wi = 1
    /\ wafter = "loop"
    /\ txOpen = FALSE
    /\ txFailed = FALSE
    /\ txRows = <<>>
    /\ persisted = <<>>
    /\ wret = "none"
    /\ cpc = [c \in Closers |-> "idle"]
    /\ cret = [c \in Closers |-> "none"]
    /\ cdone = [c \in Closers |-> FALSE]
    /\ ctxDone = [c \in Closers |-> FALSE]
    /\ upc = [c \in Closers |-> "idle"]
    /\ uret = [c \in Closers |-> "none"]
    /\ firstErr = [c \in Closers |-> "nil"]
    /\ enqLog = <<>>
    /\ dropped = {}
    /\ submitted = <<>>
    /\ txErr = FALSE
    /\ stopCount = 0
    /\ enqAtClose = [c \in Closers |-> 0]

\* the sink built by pgcore.New
\* nothing but the pipeline is under observation
Aside == NewIdle /\ RowIdle /\ TeeIdle /\ WithIdle /\ MwIdle /\ CtxStart /\ TimerStart /\ GoIdle

\* the pipeline is the one pgcore.New leaves, and nothing runs in it
PipelineIdle == mode = "pgcore" /\ InitSink /\ level = 0 /\ TimerStart /\ GoIdle

Init == mode = "pgcore" /\ InitSink /\ Aside

\* the pipeline: producers, the worker and one caller of closeFn whose context
\* has no deadline
Next ==
    \/ Offered < MaxWrites /\ Write
    \/ WorkerStop
    \/ WorkerRecv
    \/ WorkerTick
    \/ DbBegin
    \/ TxPrepare
    \/ RowStep
    \/ FinalExec
    \/ TxCommit
    \/ CloseStop(1)
    \/ WaitDone(1)
    \/ CloseSelect(1)

Spec == Init /\ [][Next]_vars

\* the shutdown protocol: every caller, closeFn called directly or through the
\* top-level cleanup, over a pipeline that carries few records
InitShutdown == mode \in Modes /\ InitSink /\ Aside

NextShutdown ==
    \/ Offered < MaxShutdownWrites /\ Write
    \/ WorkerStop
    \/ WorkerRecv
    \/ WorkerTick
    \/ DbBegin
    \/ TxPrepare
    \/ RowStep
    \/ FinalExec
    \/ TxCommit
    \/ \E c \in Closers : CloseStop(c)
    \/ \E c \in Closers : WaitDone(c)
    \/ \E c \in Closers : CtxExpire(c)
    \/ \E c \in Closers : CloseSelect(c)
    \/ \E c \in Closers : CleanupSync(c)
    \/ \E c \in Closers : CleanupSelect(c)

SpecShutdown == InitShutdown /\ [][NextShutdown]_vars

\* the cleanup of a top-level logger, built with or without the persistent
\* sink, called once with a context whose deadline may pass; the goroutine
\* cleanup starts for pgClose is scheduled
InitCleanup == mode \in CleanupModes /\ InitSink /\ Aside

NextCleanup ==
    \/ HasPgClose(mode) /\ Offered < MaxShutdownWrites /\ Write
    \/ WorkerStop
    \/ WorkerRecv
    \/ WorkerTick
    \/ DbBegin
    \/ TxPrepare
    \/ RowStep
    \/ FinalExec
    \/ TxCommit
    \/ CleanupSync(1)
    \/ CloseStop(1)
    \/ WaitDone(1)
    \/ CtxExpire(1)
    \/ CloseSelect(1)
    \/ CleanupSelect(1)

FairCleanup == WF_vars(CloseStop(1))

SpecCleanup == InitCleanup /\ [][NextCleanup]_vars /\ FairCleanup

\* the running pipeline under a fair scheduler: the ticker keeps firing, the
\* worker goroutine keeps being scheduled and every database call returns
NextFair ==
    \/ Offered < MaxFairWrites /\ Write
    \/ WorkerRecv
    \/ WorkerTick
    \/ DbBegin
    \/ TxPrepare
    \/ RowStep
    \/ FinalExec
    \/ TxCommit

FairWorker ==
    /\ WF_vars(WorkerRecv)
    /\ WF_vars(WorkerTick)
    /\ WF_vars(DbBegin)
    /\ WF_vars(TxPrepare)
    /\ WF_vars(RowStep)
    /\ WF_vars(FinalExec)
    /\ WF_vars(TxCommit)

SpecFair == Init /\ [][NextFair]_vars /\ FairWorker

\* the pipeline of Spec carrying few records, for the steps of one flush
NextFlush ==
    \/ Offered < MaxFlushWrites /\ Write
    \/ WorkerStop
    \/ WorkerRecv
    \/ WorkerTick
    \/ DbBegin
    \/ TxPrepare
    \/ RowStep
    \/ FinalExec
    \/ TxCommit
    \/ CloseStop(1)
    \/ WaitDone(1)
    \/ CloseSelect(1)

SpecFlush == Init /\ [][NextFlush]_vars

\* the pipeline from the stop signal on: producers go on writing, the ticker
\* goes on firing, the caller of closeFn has a deadline that may pass; the
\* scheduler is fair to the worker goroutine, every database call returns, and
\* the select, which picks among its ready cases at random, does not pass
\* over the closed stop channel for ever
NextStop ==
    \/ Offered < MaxStopWrites /\ Write
    \/ WorkerStop
    \/ WorkerRecv
    \/ WorkerTick
    \/ DbBegin
    \/ TxPrepare
    \/ RowStep
    \/ FinalExec
    \/ TxCommit
    \/ CloseStop(1)
    \/ WaitDone(1)
    \/ CtxExpire(1)
    \/ CloseSelect(1)

FairStop ==
    /\ SF_vars(WorkerStop)
    /\ WF_vars(DbBegin)
    /\ WF_vars(TxPrepare)
    /\ WF_vars(RowStep)
    /\ WF_vars(FinalExec)
    /\ WF_vars(TxCommit)

SpecStop == Init /\ [][NextStop]_vars /\ FairStop

\* construction: every configuration, handed to either constructor; the
\* pipeline of the sink that comes out of it is the one of Spec
InitNew ==
    /\ ncfg \in Configs
    /\ nres = NoResult
    /\ PipelineIdle /\ RowIdle /\ TeeIdle /\ WithIdle /\ MwIdle /\ CtxStart

NextNew ==
    \/ CallBetterNew
    \/ CallPgNew

SpecNew == InitNew /\ [][NextNew]_vars

\* one decoded line of a batch, for every payload and every configured key list
InitRow ==
    /\ rpayload \in [FieldKeys -> FieldValues]
    /\ rkeys \in KeyLists
    /\ rrows = <<>>
    /\ PipelineIdle /\ NewIdle /\ TeeIdle /\ WithIdle /\ MwIdle /\ CtxStart

NextRow == ExecRow

SpecRow == InitRow /\ [][NextRow]_vars

\* the tee over both cores, each with a threshold of its own, in either order
InitTee ==
    /\ tmembers \in TeeOrders
    /\ clevel \in Levels
    /\ tgot = [n \in MemberNames |-> <<>>]
    /\ tlog = <<>>
    /\ mode = "pgcore" /\ InitSink
    /\ NewIdle /\ RowIdle /\ WithIdle /\ MwIdle /\ CtxStart /\ TimerStart /\ GoIdle

NextTee == TeeWrite

SpecTee == InitTee /\ [][NextTee]_vars

\* the parent core of pgcore.New, the cores derived from it, writes through
\* any of them, the one loop and the close of the parent's stop signal
InitWith ==
    WithStart /\ PipelineIdle /\ NewIdle /\ RowIdle /\ TeeIdle /\ MwIdle /\ CtxStart

NextWith ==
    \/ \E k \in 1..Len(hcores) : With(k)
    \/ \E k \in 1..Len(hcores) : WithWrite(k)
    \/ \E w \in 1..Len(hworkers) : WithRecv(w)
    \/ WithClose
    \/ \E w \in 1..Len(hworkers) : WithStop(w)

SpecWith == InitWith /\ [][NextWith]_vars

\* the middleware around a handler that may call the response writer in any
\* way, one request after the other
InitMw ==
    MwIdle /\ PipelineIdle /\ NewIdle /\ RowIdle /\ TeeIdle /\ WithIdle /\ CtxStart

NextMw ==
    \/ MwServe
    \/ \E code \in Statuses : HandlerWriteHeader(code)
    \/ HandlerWrite
    \/ HandlerReturn
    \/ HandlerPanic

SpecMw == InitMw /\ [][NextMw]_vars

\* the context field helpers under a caller that builds maps, attaches them to
\* any context, reads the fields of any context and overwrites entries of its
\* own maps
\* the goroutines on one holder, each writer with a map of its own choosing
InitGo ==
    /\ GoStart
    /\ gkv \in [Writers -> SUBSET CtxKeys]
    /\ mode = "pgcore" /\ InitSink /\ level = 0 /\ TimerStart
    /\ NewIdle /\ RowIdle /\ TeeIdle /\ WithIdle /\ MwIdle /\ CtxStart

NextGo ==
    \/ \E w \in Writers : GoEmpty(w)
    \/ \E w \in Writers : GoLockW(w)
    \/ \E w \in Writers, k \in CtxKeys : GoWriteKey(w, k)
    \/ \E r \in Readers : GoLockR(r)
    \/ \E r \in Readers, k \in CtxKeys : GoCopyKey(r, k)
    \/ \E p \in Writers \cup Readers : GoUnlock(p)

SpecGo == InitGo /\ [][NextGo]_vars

\* the timed worker alone
InitTimer == PipelineIdle /\ NewIdle /\ RowIdle /\ TeeIdle /\ WithIdle /\ MwIdle /\ CtxStart

NextTimer ==
    \/ Elapse
    \/ TimedRecv
    \/ TimedTick

SpecTimer == InitTimer /\ [][NextTimer]_vars

InitCtx == CtxStart /\ PipelineIdle /\ NewIdle /\ RowIdle /\ TeeIdle /\ WithIdle /\ MwIdle

NextCtx ==
    \/ \E m \in CallerMaps : NewMap(m)
    \/ \E c \in 1..Len(fctx), kv \in {0} \cup fheld : WithFields(c, kv)
    \/ \E c \in 1..Len(fctx) : FieldsFrom(c)
    \/ \E r \in fheld, k \in CtxKeys : MutateMap(r, k, 2)

SpecCtx == InitCtx /\ [][NextCtx]_vars

\* ------------------------------------------------------------------ claims
\* position of the payload with this id in the arrival order
PosIn(s, id) == CHOOSE i \in 1..Len(s) : s[i].id = id

NoDup(s) == \A i, j \in 1..Len(s) : i # j => s[i] # s[j]

\* the worker has received nothing yet
Undrained == Len(queue) = Len(enqLog)

\* the worker is inside the transaction of a flush
InFlush == wpc \in {"begin", "prepare", "rows", "final", "commit"}

\* C1 (as claimed): when closeFn has returned nil and no database call failed,
\* every payload enqueued before the call of closeFn is among the persisted rows.
C1_ShutdownComplete ==
    \A c \in Closers :
        (cret[c] = "nil" /\ ~txErr) =>
            \A i \in 1..enqAtClose[c] : enqLog[i].id \in Ids(persisted)

\* C2: the channel never holds more than BufferSize payloads.
C2_QueueBounded == Len(queue) <= BufferSize

C2_Witness == Len(queue) = BufferSize /\ dropped # {}

\* C3: a Write that returns nil appends its payload at the tail when the
\* channel holds fewer than BufferSize payloads and otherwise leaves the
\* channel as it is and drops the new payload; as long as the worker has
\* received nothing, a drop means the channel holds exactly the first
\* BufferSize payloads offered, in arrival order.
C3_Step ==
    (Offered' = Offered + 1) =>
        IF Len(queue) < BufferSize
        THEN /\ Len(queue') = Len(queue) + 1
             /\ SubSeq(queue', 1, Len(queue)) = queue
             /\ queue'[Len(queue')].id = Offered'
             /\ dropped' = dropped
        ELSE /\ queue' = queue
             /\ dropped' = dropped \cup {Offered'}

C3_FirstN ==
    (Undrained /\ dropped # {}) =>
        /\ Len(queue) = BufferSize
        /\ queue = enqLog
        /\ \A i \in 1..Len(queue) : \A d \in dropped : queue[i].id < d
        /\ \A i, j \in 1..Len(queue) : i < j => queue[i].id < queue[j].id

C3_DropNewOnFull == [](C3_FirstN) /\ [][C3_Step]_vars

C3_Witness == Undrained /\ Len(queue) = BufferSize /\ Cardinality(dropped) = 1

\* C4: whatever the worker is doing and however full the channel is, a Write
\* whose encoding succeeds can take its step at once, and every Write that
\* offers its payload returns nil, the one whose payload is dropped included.
C4_CanWrite ==
    ~panicked =>
        \A lvl \in Levels, kind \in PayloadKinds :
            Check(lvl) => ENABLED CoreWrite(lvl, kind, TRUE)

C4_Step ==
    Offered' # Offered =>
        \A lvl \in Levels, kind \in PayloadKinds :
            (Check(lvl) /\ CoreWrite(lvl, kind, TRUE)) =>
                /\ wret' = "nil"
                /\ Len(queue) = BufferSize => dropped' # dropped

C4_WriteNeverBlocks == [](C4_CanWrite) /\ [][C4_Step]_vars

C4_Witness ==
    /\ wpc = "done"
    /\ Len(queue) = BufferSize
    /\ dropped # {}
    /\ wret = "nil"

\* C5: no payload below the threshold is ever in the channel, in the batch or
\* in the table; a call below the threshold leaves the channel alone, and a
\* call at or above it puts its payload at the tail of a channel that has room.
C5_Below ==
    /\ \A i \in 1..Len(enqLog) : enqLog[i].lvl >= level
    /\ \A i \in 1..Len(queue) : queue[i].lvl >= level
    /\ \A i \in 1..Len(batch) : batch[i].lvl >= level
    /\ \A i \in 1..Len(persisted) : persisted[i].lvl >= level

C5_Step ==
    \A lvl \in Levels, kind \in PayloadKinds :
        WriteOf(lvl, kind, TRUE) =>
            IF lvl < level
            THEN UNCHANGED <<queue, enqLog, dropped>> /\ wret' = "filtered"
            ELSE Len(queue) < BufferSize =>
                    queue' = Append(queue, [id |-> Offered', kind |-> kind,
                                            lvl |-> lvl])

C5_LevelFilter == [](C5_Below) /\ [][C5_Step]_vars

C5_Witness ==
    /\ wret = "filtered"
    /\ Len(queue) > 0
    /\ Len(persisted) > 0

C7_TimeoutReported ==
    \A c \in Closers :
        /\ cret[c] = "nil" => wpc = "done"
        /\ uret[c] = "nil" => wpc = "done"

\* C8 (as claimed): however often the shutdown function is called, c.stop is
\* closed at most once and the process does not panic.
C8_StopOnce == stopCount <= 1 /\ ~panicked

\* C9: the payloads handed to stmt.Exec, and the rows persisted, come in the
\* order in which the channel accepted them.
C9_FIFO ==
    /\ \A i, j \in 1..Len(submitted) :
          i < j => PosIn(enqLog, submitted[i]) < PosIn(enqLog, submitted[j])
    /\ \A i, j \in 1..Len(persisted) :
          i < j => PosIn(enqLog, persisted[i].id) < PosIn(enqLog, persisted[j].id)
    /\ \A i, j \in 1..Len(batch) :
          i < j => PosIn(enqLog, batch[i].id) < PosIn(enqLog, batch[j].id)

C9_Witness ==
    /\ Len(submitted) = 3
    /\ Len(persisted) >= 2
    /\ wpc = "select"

\* C10: no payload is handed to stmt.Exec twice, every persisted row is an
\* enqueued payload persisted once, and a payload that has left the channel
\* is never in it again nor in the batch once the flush that handed it to
\* stmt.Exec is over.
C10_AtMostOnce ==
    /\ NoDup(submitted)
    /\ NoDup(persisted)
    /\ Range(persisted) \subseteq Range(enqLog)
    /\ \A k \in 1..Len(submitted) : submitted[k] \in Ids(enqLog)
    /\ Ids(queue) \cap Ids(batch) = {}
    /\ \A k \in 1..Len(submitted) : submitted[k] \notin Ids(queue)
    /\ ~InFlush => \A k \in 1..Len(submitted) : submitted[k] \notin Ids(batch)

C10_Witness ==
    /\ txErr
    /\ Len(submitted) >= 2
    /\ Len(persisted) = 1
    /\ wpc = "done"
    /\ cret[1] = "nil"

\* C11: size-triggered flush.  The batch never holds more than BatchSize
\* payloads, and it holds fewer than BatchSize whenever the worker waits in
\* its select: the receive that fills the batch goes straight into the flush.
C11_SizeFlush ==
    /\ Len(batch) <= BatchSize
    /\ (wpc = "select" => Len(batch) < BatchSize)

\* a receive has filled the batch and the worker is at the start of the flush
C11_Witness ==
    /\ Len(batch) = BatchSize
    /\ wpc = "begin"
    /\ wafter = "loop"
    /\ Len(queue) > 0

\* the parseable payload id sits in the worker's batch
InBatch(id) == \E i \in 1..Len(batch) : batch[i].id = id /\ batch[i].kind = "object"

\* C12: timer-triggered flush.  With no receive and no stop, the only step the
\* waiting worker takes on a non-empty batch is the tick, and the tick hands
\* the whole batch to the flush however short it is; so, the ticker firing
\* and the database answering, every parseable payload of the batch is
\* persisted unless a database call fails.
C12_TickStep ==
    (wpc = "select" /\ batch # <<>> /\ queue' = queue /\ wvars' # wvars)
        => (wpc' = "begin" /\ batch' = batch)

C12_TimerFlush ==
    /\ [][C12_TickStep]_vars
    /\ \A id \in 1..MaxFairWrites :
          InBatch(id) ~> (txErr \/ id \in Ids(persisted))

\* one payload was written, and the tick alone has brought it to storage
C12_Witness ==
    /\ Offered = 1
    /\ Len(persisted) = 1
    /\ BatchSize > 1
    /\ ~txErr
    /\ wpc = "select"

\* a constructor call that failed and left nothing behind
FailedClean ==
    /\ nres.err # "nil"
    /\ ~nres.logger
    /\ ~nres.cleanup
    /\ nres.workers = 0

\* C13: betterlogs.New with neither the console sink nor the persistent sink
\* enabled returns an error, a nil logger and a nil cleanup, and has started
\* no worker.
C13_NoSinkFails ==
    (nres.ctor = "betterlogs" /\ ~ncfg.stdout /\ ~ncfg.pg) => FailedClean

\* New has returned for a configuration without any sink, storage handle given
C13_Witness ==
    /\ nres.ctor = "betterlogs"
    /\ ~ncfg.stdout /\ ~ncfg.pg /\ ncfg.db = "open"
    /\ nres.err = "nocore"

\* C14: betterlogs.New with the persistent sink enabled and a nil storage
\* handle returns an error, a nil logger and a nil cleanup, and has started no
\* worker, with the console sink enabled or not.
C14_NilHandleFails ==
    (nres.ctor = "betterlogs" /\ ncfg.pg /\ ncfg.db = "nil") => FailedClean

\* New has returned for a nil handle with the console sink enabled
C14_Witness ==
    /\ nres.ctor = "betterlogs"
    /\ ncfg.pg /\ ncfg.db = "nil" /\ ncfg.stdout
    /\ nres.err = "nildb"

\* C15: pgcore.New with a nil storage handle returns an error and starts no
\* worker.
C15_PgNewNilHandleFails ==
    (nres.ctor = "pgcore" /\ ncfg.db = "nil")
        => (nres.err # "nil" /\ nres.workers = 0)

\* the key at position i of the list qualifies and none before it does
FirstQualifying(m, keys, i) ==
    /\ Qualifies(m, keys[i])
    /\ \A j \in 1..(i - 1) : ~Qualifies(m, keys[j])

\* C16: correlation-ID extraction.  The req_id of the row is the value of the
\* first key of the effective key list that holds a non-empty string in the
\* payload, and it is empty when no key of the list does.
C16_FirstNonEmpty ==
    \A r \in 1..Len(rrows) :
        LET keys == ReqKeys(rkeys)
            m == rrows[r].raw
        IN  /\ \A i \in 1..Len(keys) :
                 FirstQualifying(m, keys, i) => rrows[r].req_id = m[keys[i]].v
            /\ (\A i \in 1..Len(keys) : ~Qualifies(m, keys[i]))
                 => rrows[r].req_id = ""

\* a row whose first listed key held a number and whose second listed key held
\* the string that was taken
C16_Witness ==
    /\ Len(rrows) = 1
    /\ Len(rkeys) = 2
    /\ rkeys[1] # rkeys[2]
    /\ rpayload[rkeys[1]].t = "number"
    /\ rpayload[rkeys[2]] = [t |-> "string", v |-> "b"]
    /\ rrows[1].req_id = "b"

\* the threshold a member of the tee was built with
Threshold(n) == IF n = "pg" THEN level ELSE clevel

\* the record id was taken by the Write of member n
Got(n, id) == \E i \in 1..Len(tgot[n]) : tgot[n][i] = id

\* C17: fan-out selective delivery.  A record logged through the tee is never
\* delivered to a member whose threshold is above its level, it is delivered
\* to every member whose threshold is not when no write fails, and the tee
\* accepts a level iff some member does.
C17_SelectiveDelivery ==
    \A r \in 1..Len(tlog) :
        LET rec == tlog[r] IN
        /\ \A n \in MemberNames :
             /\ Got(n, rec.id) => rec.lvl >= Threshold(n)
             /\ (rec.failed = {} /\ rec.lvl >= Threshold(n)) => Got(n, rec.id)
        /\ rec.accepted <=> (\E n \in MemberNames : rec.lvl >= Threshold(n))

\* an Info record under a tee whose Postgres core starts at Warn: the console
\* core has it and the Postgres core has not
C17_Witness ==
    /\ level = 1 /\ clevel = 0
    /\ Len(tlog) = 1
    /\ tlog[1].lvl = 0 /\ tlog[1].failed = {} /\ tlog[1].accepted
    /\ Got("console", 1) /\ ~Got("pg", 1)

\* C18: fan-out failure isolation.  When the Write of one member fails for a
\* record, every other member whose threshold admits the record still gets
\* it, in either order of the members.
C18_FailureIsolation ==
    \A r \in 1..Len(tlog) :
        LET rec == tlog[r] IN
        \A n \in MemberNames :
            (rec.failed # {} /\ n \notin rec.failed /\ rec.lvl >= Threshold(n))
                => Got(n, rec.id)

\* the first member of the tee failed and the second one has the record
C18_Witness ==
    /\ Len(tlog) >= 1
    /\ tlog[1].failed = {tmembers[1]}
    /\ tlog[1].lvl >= Threshold(tmembers[1])
    /\ Got(tmembers[2], 1)

\* C19: With starts no worker and creates no queue or stop signal.  However
\* many cores have been derived, one loop has been started, every core holds
\* the parent's channel and stop signal, every payload written through any
\* core sits in the parent's channel or has been received by that loop, and
\* once the parent's stop signal is closed no loop is left that it does not
\* stop.
C19_WithSharesWorker ==
    /\ Len(hworkers) = 1
    /\ \A k \in 1..Len(hcores) :
         /\ hcores[k].ch = hcores[1].ch
         /\ hcores[k].stop = hcores[1].stop
    /\ \A c \in ChanIds : c # hcores[1].ch => hqueue[c] = <<>>
    /\ hcores[1].stop \in hclosed
         => \A k \in 1..Len(hcores) : hcores[k].stop \in hclosed

\* a core derived from a derived core has written, the one loop has received
\* that payload with its two static fields, and the stop signal is closed
C19_Witness ==
    /\ Len(hcores) = 3
    /\ hcores[3].fields = 2
    /\ \E i \in 1..Len(hworkers[1].got) :
         hworkers[1].got[i] = [core |-> 3, fields |-> 2]
    /\ hworkers[1].pc = "done"

\* C20: the middleware logs one record per completed request, at Info when
\* the status of the response is below 400, at Warn from 400 to 499 and at
\* Error from 500.
C20_SeverityByStatus ==
    \A r \in 1..Len(mlog) :
        /\ mlog[r].resp < 400 => mlog[r].sev = "info"
        /\ (mlog[r].resp >= 400 /\ mlog[r].resp < 500) => mlog[r].sev = "warn"
        /\ mlog[r].resp >= 500 => mlog[r].sev = "error"

\* what FieldsFrom returns for the context c in the current state
FieldsOf(c) == IF HolderOf(c) = 0 THEN EmptyMap ELSE fheap[HolderOf(c)]

\* C21: context fields are stored and read by copy.  Whatever the caller
\* writes into a map it passed to WithFields or got from FieldsFrom, the
\* fields of a context are those attached to it so far, with the values they
\* had when they were attached; and FieldsFrom on a context without a holder
\* returned the empty map.
C21_StoredByCopy ==
    /\ \A c \in 1..Len(fctx) :
         HolderOf(c) # 0 => FieldsOf(c) = fexp[HolderOf(c)]
    /\ (fret.ctx # 0 /\ HolderOf(fret.ctx) = 0) => fret.val = EmptyMap

\* a field was attached with the value 1, and the caller has since written 2
\* under the same key both into the map it passed and into the map it got back
C21_Witness ==
    /\ \E c \in 1..Len(fctx) : HolderOf(c) # 0 /\ FieldsOf(c)["a"] = 1
    /\ fcall.kv["a"] = 1
    /\ fret.val["a"] = 1
    /\ Cardinality({r \in fheld : fheap[r]["a"] = 2}) >= 2

C23_Step ==
    \A lvl \in Levels, kind \in PayloadKinds :
        (Check(lvl) /\ WriteOf(lvl, kind, FALSE))
            => /\ wret' = "encerr"
               /\ queue' = queue
               /\ enqLog' = enqLog
               /\ dropped' = dropped
               /\ wvars' = wvars

C23_EncodingFailure == [][C23_Step]_vars

\* the latest call returned the encoding error while the one payload written
\* before it sits in the worker's batch
C23_Witness ==
    /\ wret = "encerr"
    /\ Offered = 1
    /\ Len(batch) = 1
    /\ wpc = "select"

\* C24: stop handling.  The worker leaves its select for the exit only on a
\* closed stop channel and with its batch as it is; the flush it then runs
\* is its last one, takes nothing from the channel and ends in termination;
\* a terminated worker stays terminated, takes nothing from the channel,
\* opens no transaction and persists no row.
C24_Step ==
    /\ (wpc = "select" /\ (wafter' = "exit" \/ wpc' = "done"))
         => (stopClosed /\ batch' = batch /\ queue' = queue)
    /\ (wafter = "exit" /\ InFlush)
         => /\ wpc' \in {"begin", "prepare", "rows", "final", "commit", "done"}
            /\ (wpc # "begin" => wpc' # "begin")
            /\ queue' = queue \/ Len(queue') > Len(queue)
    /\ wpc = "done"
         => /\ wvars' = wvars
            /\ queue' = queue \/ Len(queue') > Len(queue)

C24_StopHandling ==
    /\ [](wafter = "exit" => (InFlush /\ stopClosed))
    /\ [](wpc = "done" => (~txOpen /\ batch = <<>>))
    /\ [][C24_Step]_vars

\* the worker has terminated after persisting a payload, and a payload written
\* later stays in the channel
C24_Witness ==
    /\ wpc = "done"
    /\ stopClosed
    /\ Len(persisted) = 1
    /\ Len(queue) = 1

\* C25: the batch is empty after every flush attempt.  Whatever step ends a
\* flush (a failed begin, a failed prepare, or the commit after any mix of row,
\* finalize and commit results) leaves the batch empty, the flush itself never
\* changes the batch before that, and the worker takes nothing into the batch
\* while it is flushing.
C25_Step ==
    /\ (InFlush /\ ~InFlush') => batch' = <<>>
    /\ (InFlush /\ InFlush') => batch' = batch

C25_BatchReset == [][C25_Step]_vars

\* a flush whose rows were all submitted and whose transaction failed has
\* ended: the worker waits again, on an empty batch
C25_Witness ==
    /\ wpc = "select"
    /\ batch = <<>>
    /\ txErr
    /\ Len(submitted) = 2
    /\ persisted = <<>>

\* the payload id was taken from the channel, is in no batch any more and was
\* never handed to the bulk-load statement
Discarded(id) ==
    /\ id \in Ids(enqLog)
    /\ id \notin Ids(queue)
    /\ id \notin Ids(batch)
    /\ id \notin Range(submitted)

\* C26: begin/prepare failure.  A step of db.Begin or tx.Prepare that does not
\* go on to the next stage of the flush ends the flush: the batch is emptied,
\* nothing of it was or is submitted or persisted, no transaction stays open
\* and the worker is back where the flush was called from.  A payload
\* discarded that way is never taken up again and never persisted; nothing
\* keeps the worker from persisting later payloads.
C26_Step ==
    /\ (wpc \in {"begin", "prepare"} /\ wvars' # wvars /\ wpc' \notin {"prepare", "rows"})
         => /\ batch' = <<>>
            /\ Ids(batch) \cap Range(submitted') = {}
            /\ persisted' = persisted
            /\ ~txOpen'
            /\ wpc' = AfterFlush(wafter)
            /\ queue' = queue
    /\ \A id \in 1..MaxFlushWrites : Discarded(id) => Discarded(id)'

C26_BeginPrepareFailure ==
    /\ [](\A id \in 1..MaxFlushWrites : Discarded(id) => id \notin Ids(persisted))
    /\ [][C26_Step]_vars

\* the first payload, a parseable one, was discarded by an aborted flush, and
\* the payload written after it has been persisted by a later flush
C26_Witness ==
    /\ txErr
    /\ wpc = "select"
    /\ Len(enqLog) = 2
    /\ enqLog[1].kind = "object"
    /\ Discarded(enqLog[1].id)
    /\ Ids(persisted) = {enqLog[2].id}

\* the payload id has left the channel and the batch without being persisted
Abandoned(id) ==
    /\ id \in Ids(enqLog)
    /\ id \notin Ids(queue)
    /\ id \notin Ids(batch)
    /\ id \notin Ids(persisted)

\* C27: finalize/commit failure.  A failed finalize step still goes on to the
\* commit; the commit step stores either all accepted rows of the batch or
\* none, and none when the finalize step had failed or the commit reports the
\* first error of the run; either way it empties the batch, closes the
\* transaction and returns the worker to where the flush was called from.  A
\* payload that has left the batch unpersisted is never persisted later.
C27_Step ==
    /\ (wpc = "final" /\ wvars' # wvars) => (wpc' = "commit" /\ batch' = batch)
    /\ (wpc = "commit" /\ wvars' # wvars)
         => /\ persisted' \in {persisted, persisted \o txRows}
            /\ txFailed => persisted' = persisted
            /\ (~txErr /\ txErr') => persisted' = persisted
            /\ batch' = <<>>
            /\ ~txOpen'
            /\ wpc' = AfterFlush(wafter)
    /\ \A id \in 1..MaxFlushWrites : Abandoned(id) => Abandoned(id)'

C27_FinalizeCommitFailure == [][C27_Step]_vars

\* the first payload was submitted in a flush of its own whose transaction
\* stored nothing, and the worker went on to persist the second
C27_Witness ==
    /\ wpc = "select"
    /\ Len(enqLog) = 2
    /\ submitted = <<enqLog[1].id, enqLog[2].id>>
    /\ Abandoned(enqLog[1].id)
    /\ Ids(persisted) = {enqLog[2].id}
    /\ dropped = {}

\* the parseable payloads among the first n of the batch were all handed to
\* the bulk-load statement
SubmittedUpTo(n) ==
    \A i \in 1..n : Parseable(batch[i]) => batch[i].id \in Range(submitted)

\* C28: row insert failure.  Whatever stmt.Exec answers for a payload, the
\* loop goes on to the next one, so that all parseable payloads of the batch
\* have been submitted, each once, when the finalize step is reached; finalize
\* and commit follow, and the transaction stays open, without a rollback, from
\* the first row to the commit.
C28_Step ==
    /\ (wpc = "rows" /\ wvars' # wvars)
         => /\ IF wi < Len(batch)
               THEN wpc' = "rows" /\ wi' = wi + 1
               ELSE wpc' = "final"
            /\ batch' = batch
            /\ txOpen'
            /\ persisted' = persisted
    /\ (wpc = "final" /\ wvars' # wvars) => (wpc' = "commit" /\ txOpen')
    /\ (wpc = "commit" /\ wvars' # wvars) => ~txOpen'

C28_RowInsertFailure ==
    /\ [](wpc = "rows" => (txOpen /\ wi \in 1..Len(batch) /\ SubmittedUpTo(wi - 1)))
    /\ [](wpc \in {"final", "commit"} => (txOpen /\ SubmittedUpTo(Len(batch))))
    /\ [](NoDup(submitted))
    /\ [][C28_Step]_vars

\* the first row of a batch of two was refused, the second was submitted and
\* accepted all the same, and the open transaction is about to be finalized
C28_Witness ==
    /\ wpc = "final"
    /\ txOpen
    /\ txErr
    /\ Len(batch) = 2
    /\ submitted = <<batch[1].id, batch[2].id>>
    /\ Ids(txRows) = {batch[2].id}

\* C29: no transaction for an empty batch.  The worker is inside a flush, and
\* a transaction is open, only with a non-empty batch; a tick or a stop signal
\* taken on an empty batch starts no flush, opens no transaction and leaves
\* storage as it is.
C29_Step ==
    (wpc = "select" /\ batch = <<>> /\ Len(queue') >= Len(queue))
        => /\ wpc' \in {"select", "done"}
           /\ wpc' = "done" => stopClosed
           /\ ~txOpen'
           /\ persisted' = persisted
           /\ submitted' = submitted
           /\ txErr' = txErr
           /\ batch' = <<>>

C29_NoEmptyTransaction ==
    /\ [](InFlush => batch # <<>>)
    /\ [](txOpen => (InFlush /\ batch # <<>>))
    /\ [][C29_Step]_vars

\* the stop signal found the batch empty: the worker has terminated without
\* any database call, nothing having been written
C29_Witness ==
    /\ wpc = "done"
    /\ Offered = 0
    /\ persisted = <<>>
    /\ submitted = <<>>
    /\ ~txErr
    /\ ~txOpen

\* C30: single in-flight flush.  db.Begin is called only when no transaction
\* of the sink is open; a transaction is open exactly between its begin and
\* the rollback or commit that ends it, both inside the same flush, so none
\* is open when the worker waits or has terminated; and while a flush is
\* executing the channel only grows.
C30_Step ==
    /\ InFlush => (queue' = queue \/ Len(queue') > Len(queue))
    /\ (~txOpen /\ txOpen') => (wpc = "begin" /\ wpc' = "prepare")
    /\ (txOpen /\ ~txOpen') => (wpc \in {"prepare", "commit"} /\ ~InFlush')

C30_SingleFlush ==
    /\ [](txOpen <=> wpc \in {"prepare", "rows", "final", "commit"})
    /\ [][C30_Step]_vars

\* a flush is executing inside its transaction while a payload written
\* meanwhile waits in the channel
C30_Witness ==
    /\ wpc = "rows"
    /\ txOpen
    /\ Len(batch) = 1
    /\ Len(queue) = 1

\* C31: worker termination.  From the moment the stop channel is closed the
\* worker reaches its terminated state, whatever producers, the ticker and
\* the caller's deadline do meanwhile; and it does so as well when the caller
\* has already returned on its expired deadline.
C31_WorkerTerminates ==
    /\ stopClosed ~> (wpc = "done")
    /\ (cret[1] = "deadline" /\ wpc # "done") ~> (wpc = "done")

\* the caller gave up on its deadline without seeing the worker finish, a
\* payload was written after the stop signal, and the worker has terminated
C31_Witness ==
    /\ wpc = "done"
    /\ cret[1] = "deadline"
    /\ ~cdone[1]
    /\ Len(enqLog) > enqAtClose[1]

\* C32: cleanup ordering.  The stop channel is closed only by a cleanup whose
\* sync has returned, and the close leaves the sync result alone; once the
\* sync has returned, with or without an error, the stop channel does get
\* closed.  A logger without the persistent sink never has a stop channel
\* closed or a closeFn started, and its cleanup returns with the sync step,
\* giving back the sync result.
C32_Step ==
    /\ (~stopClosed /\ stopClosed')
         => /\ mode = "toplevel"
            /\ upc[1] \in {"wait", "ret"}
            /\ firstErr' = firstErr
    /\ (mode = "console" /\ upc[1] = "idle" /\ upc'[1] # "idle")
         => (upc'[1] = "ret" /\ uret'[1] = firstErr'[1])

C32_CleanupOrdering ==
    /\ [][C32_Step]_vars
    /\ [](stopClosed => upc[1] # "idle")
    /\ [](mode = "console" =>
            /\ ~stopClosed
            /\ cpc[1] = "idle"
            /\ upc[1] = "ret" => uret[1] = firstErr[1])
    /\ (mode = "toplevel" /\ upc[1] # "idle") ~> stopClosed
    /\ (mode = "toplevel" /\ firstErr[1] = "syncerr") ~> stopClosed

\* the sync of a logger with the persistent sink failed, the stop channel was
\* closed all the same, the worker terminated and cleanup returned the sync
\* error
C32_Witness ==
    /\ mode = "toplevel"
    /\ firstErr[1] = "syncerr"
    /\ stopClosed
    /\ wpc = "done"
    /\ uret[1] = "syncerr"

\* C33 as stated: the periodic flush is measured from the last flush, that is,
\* a timer-triggered flush comes at least MaxWait after the previous flush of
\* the batch.
C33_SinceLastFlush == lastGap = -1 \/ lastGap >= DefaultMaxWait

\* C33, amended: the periodic flush follows a ticker of fixed period MaxWait
\* that starts with the worker and that no flush restarts.  Ticks taken and
\* the tick pending are no more than the periods that have elapsed, so there
\* is no timer-triggered flush before MaxWait has passed since the start and
\* at most one per elapsed period; the next tick stays on the grid of the
\* start, whenever the batch was last flushed.
C33_FixedPeriodTicker ==
    /\ (timerFlushes + (IF tickC THEN 1 ELSE 0)) * DefaultMaxWait <= clock
    /\ tickAt > clock
    /\ tickAt % DefaultMaxWait = 0
    /\ timerFlushes > 0 => lastFlush >= DefaultMaxWait

\* a timer-triggered flush has followed a size-triggered flush by less than
\* MaxWait
C33_Witness ==
    /\ timerFlushes = 1
    /\ lastGap # -1
    /\ lastGap < DefaultMaxWait
    /\ lastFlush = DefaultMaxWait

\* the holder's map after the first n writers of the lock order, each call
\* applied as a whole
RECURSIVE SeqApply(_)
SeqApply(n) == IF n = 0 THEN EmptyMap ELSE Merge(SeqApply(n - 1), KvOf(gorder[n]))

\* C34: concurrent context-field access is atomic.  The snapshot a reader has
\* returned is the holder's map as it stood between two whole WithFields
\* calls: the calls up to some point of the lock order, each applied
\* completely, and nothing of the later ones; with calls on disjoint keys it
\* holds all keys of a call or none.  When every call has returned, the
\* holder's map is what the calls give when applied one after the other in
\* the lock order.  At most one goroutine is inside the lock.
C34_AtomicAccess ==
    /\ \A r \in Readers :
          gpc[r] = "ret" => \E n \in 0..Len(gorder) : gout[r] = SeqApply(n)
    /\ (\A w1, w2 \in Writers : w1 # w2 => gkv[w1] \cap gkv[w2] = {})
          => \A r \in Readers, w \in Writers :
                gpc[r] = "ret" =>
                    \/ \A k \in gkv[w] : gout[r][k] = w
                    \/ \A k \in gkv[w] : gout[r][k] = 0
    /\ (\A p \in Writers \cup Readers : gpc[p] = "ret")
          => gm = SeqApply(Len(gorder))
    /\ Cardinality({p \in Writers \cup Readers : gpc[p] = "locked"}) <= 1

\* two writers have written the same two keys one after the other, and the
\* reader that ran between them has returned all of the first call and
\* nothing of the second
C34_Witness ==
    /\ \A p \in Writers \cup Readers : gpc[p] = "ret"
    /\ gkv[1] = CtxKeys /\ gkv[2] = CtxKeys
    /\ Len(gorder) >= 2 /\ gorder[1] = 1 /\ gorder[2] = 2
    /\ \A r \in Readers : gout[r] = KvOf(1)
    /\ \A k \in CtxKeys : gm[k] # 1

\* what pgcore.New is to make of a configured size
Normalised(x, d) == IF x <= 0 THEN d ELSE x

\* C35: configuration normalisation.  Whenever a constructor has started a
\* sink, the sink has BatchSize >= 1, BufferSize >= 1 and MaxWait > 0: a zero
\* or negative BatchSize, MaxWait or BufferSize has become 1000, 2 seconds and
\* 10000, a positive one is kept; the sink's correlation keys are the
\* configured list, or for an empty list the default list, which starts with
\* request_id, req_id.  The top-level constructor hands on no key list, so
\* its sink has the default list.
C35_Normalised ==
    nres.workers = 1 =>
        /\ nres.batchSize >= 1 /\ nres.bufferSize >= 1 /\ nres.maxWait > 0
        /\ nres.batchSize = Normalised(ncfg.batchSize, 1000)
        /\ nres.maxWait = Normalised(ncfg.maxWait, 2)
        /\ nres.bufferSize = Normalised(ncfg.bufferSize, 10000)
        /\ LET given == IF nres.ctor = "pgcore" THEN ncfg.keys ELSE <<>>
           IN  IF given = <<>>
               THEN /\ Len(nres.keys) >= 2
                    /\ nres.keys[1] = "request_id"
                    /\ nres.keys[2] = "req_id"
                    /\ nres.keys = DefaultKeys
               ELSE nres.keys = given

\* pgcore.New has returned for a zero BatchSize, a negative MaxWait, a
\* positive BufferSize and no correlation keys
C35_Witness ==
    /\ nres.ctor = "pgcore"
    /\ nres.workers = 1
    /\ ncfg.batchSize = 0 /\ ncfg.maxWait = -1 /\ ncfg.bufferSize = 2
    /\ ncfg.keys = <<>>
    /\ nres.batchSize = 1000 /\ nres.maxWait = 2 /\ nres.bufferSize = 2
    /\ nres.keys[1] = "request_id"

\* the payload id was accepted into the channel
Enqueued(id) == id \in Ids(enqLog)

\* the accepted payload id is one that parses as a JSON object
EnqueuedObject(id) ==
    \E i \in 1..Len(enqLog) : enqLog[i].id = id /\ Parseable(enqLog[i])

====
